---- MODULE Spec2Model ----
(***************************************************************************)
(* Model of the chart-analysis server: the background warmup task          *)
(* (run_warmup), the shared WarmupStatus behind a tokio RwLock, the status *)
(* query (warmup_handler) and the analysis request (analyze_handler) with  *)
(* its vision stage (describe_chart, poll_prediction, extract_result) and  *)
(* its reasoning stage (analyze_pattern).                                  *)
(*                                                                         *)
(* Every await of the source is a step boundary.  The field assignments    *)
(* made under a write guard are separate steps, because the runtime is     *)
(* multi-threaded: only the lock keeps readers away from a half-written    *)
(* cell.                                                                   *)
(***************************************************************************)
EXTENDS Integers, Sequences, FiniteSets, TLC

VARIABLES
    warmup,        \* AppState.warmup: the WarmupStatus inside the RwLock
    writer,        \* the RwLock's write guard is held (by run_warmup)
    readers,       \* the tasks that hold a read guard
    wwaiting,      \* run_warmup is queued for the write guard (FIFO lock)
    committed,     \* history: the cell as the last dropped write guard left it
    wpc,           \* run_warmup's position
    wq,            \* assignments still to make under the current write guard
    wnext,         \* run_warmup's position after the guard is dropped
    attempt,       \* run_warmup's loop variable `attempt`
    elapsed,       \* run_warmup's local `elapsed`
    clock,         \* the last reading of start.elapsed().as_secs()
    wresp,         \* class of the upstream response run_warmup is acting on
    wSubmitCalls,  \* history: warmup prediction submits sent
    wPollCalls,    \* history: warmup poll calls sent
    wPollResps,    \* history: warmup poll responses received
    wWarm,         \* history: the submit response read succeeded, no error
    qpc,           \* warmup_handler's position
    qsnap,         \* warmup_handler's clone of the status
    apc,           \* analyze_handler's position
    asnap,         \* what analyze_handler read of the status at its gate
    vattempt,      \* poll_prediction's loop variable `attempt`
    vision,        \* analyze_handler's `vision_result`
    aresponse,     \* what analyze_handler returns
    aresp,         \* class of the upstream response the request is acting on
    aUploadCalls,  \* history: file uploads sent by the request
    aSubmitCalls,  \* history: prediction submits sent by the request
    aPollCalls,    \* history: poll calls sent by the request
    aPollResps,    \* history: poll responses received by the request
    aReasonCalls,  \* history: reasoning calls sent by the request
    aWarm,         \* history: the request's submit response read succeeded, no error
    fcall,         \* the function applied on its own, with its argument
    fret           \* what that function returned

cell == <<warmup, committed>>
lockvars == <<writer, readers, wwaiting>>
wctl == <<wpc, wq, wnext>>
wloc == <<attempt, elapsed>>
whist == <<wresp, wSubmitCalls, wPollCalls, wPollResps, wWarm>>
wvars == <<wctl, wloc, whist>>
qvars == <<qpc, qsnap>>
actl == <<apc, asnap, vattempt, vision, aresponse>>
ahist == <<aresp, aUploadCalls, aSubmitCalls, aPollCalls, aPollResps, aReasonCalls, aWarm>>
avars == <<actl, ahist>>
fvars == <<fcall, fret>>
svars == <<cell, clock, lockvars, wvars, qvars, avars>>
vars == <<svars, fvars>>

\* A handler that has its response returns it at once: the return touches only
\* the request's own variables, which no other task reads, so it commutes with
\* every step of the other tasks and is scheduled before them.
Returning == apc = "responded"

\* ---------------------------------------------------------------- bounds
\* Seconds by which the clock may run ahead of the sleeps made so far.
MaxDrift == 1

\* Token counts run over the multiples of 50 up to 50 * MaxTokenUnits, and 1000.
MaxTokenUnits == 10

\* The longest output array extract_result is applied to.
MaxFragments == 3

\* ------------------------------------------------------ program constants
WarmupMaxAttempts == 120
VisionMaxAttempts == 100
PollIntervalSecs == 3

\* ------------------------------------------------------------- messages
None == "none"
NoSecs == 0 - 1

\* A formatted message: the literal text, the seconds and the string it embeds.
Msg(text, secs, arg) == [text |-> text, secs |-> secs, arg |-> arg]

MsgServerStarting == Msg("server starting...", NoSecs, None)
MsgSending == Msg("sending warmup request to replicate...", NoSecs, None)
MsgParseError(e) == Msg("warmup parse error: {}", NoSecs, e)
MsgReplicateError(err) == Msg("replicate error: {}", NoSecs, err)
MsgModelReady == Msg("model ready", NoSecs, None)
MsgNoPredictionId(body) == Msg("no prediction id: {}", NoSecs, body)
MsgRequestFailed(e) == Msg("warmup request failed: {}", NoSecs, e)
MsgWarmingUp(secs) == Msg("warming up model... {}s", secs, None)
MsgModelReadyIn(secs) == Msg("model ready ({}s)", secs, None)
MsgWarmupFailed(err) == Msg("warmup failed: {}", NoSecs, err)
MsgTimedOut == Msg("warmup timed out after 6 minutes", NoSecs, None)

\* ------------------------------------------------------ upstream responses
\* The `status` strings an upstream body can carry ("" stands for an absent or
\* non-string status, which unwrap_or("") reads as "").
Statuses == {"", "starting", "processing", "succeeded", "failed", "canceled", "queued"}

\* What the warmup's reqwest call and r.json() can yield: a transport error, a
\* body that is no JSON, or a JSON value with optional string fields.
WarmupResponses ==
    {[kind |-> "transport_err"], [kind |-> "parse_err"]}
    \cup [kind : {"json"}, detail : {None, "bad token"}, status : Statuses,
          id : {None, "p1"}, error : {None, "boom"}]

\* The class of a response, kept while a task acts on it: how it arrived, what
\* its status says, and whether it carries an error field.
StatusClass(status) ==
    IF status \in {"succeeded", "failed", "canceled"} THEN status ELSE "pending"

RespClass(kind, status, error) == [kind |-> kind, status |-> status, error |-> error]

WClass(r) ==
    IF r.kind # "json" THEN RespClass(r.kind, None, FALSE)
    ELSE RespClass("json", StatusClass(r.status), r.error # None)

NoResp == RespClass(None, None, FALSE)

\* A string as the sequence of its characters.
Chars == {"a", "b", "c", "D", "4", "2"}

\* An element of an output array: a JSON string, or any other JSON value.
JStr(s) == [isStr |-> TRUE, str |-> s]
JOther == [isStr |-> FALSE, str |-> <<>>]

\* ReplicateResponse.output: absent, a string, an array, another JSON value
\* (with its serde_json rendering).
Outputs ==
    {[tag |-> "absent"]}
    \cup {[tag |-> "string", str |-> s] : s \in {<<>>, <<"D">>}}
    \cup {[tag |-> "array", items |-> a] :
            a \in {<<>>, <<JStr(<<"a">>), JStr(<<"b">>), JStr(<<"c">>)>>,
                   <<JStr(<<>>)>>, <<JOther, JStr(<<"a">>)>>, <<JOther>>}}
    \cup {[tag |-> "other", repr |-> <<"4", "2">>]}

\* ReplicateResponse.metrics: absent, without predict_time, or with a
\* predict_time (in milliseconds).
NoMetrics == 0 - 2
NoPredictTime == 0 - 1
Metrics == {NoMetrics, NoPredictTime, 1500, 12000}

\* A body that deserializes as ReplicateResponse.  The output and the metrics are
\* read only of a response that succeeded without an error, so the others are
\* taken without them.
Predictions ==
    [kind : {"json"}, status : {"succeeded"}, error : {None}, output : Outputs,
     metrics : Metrics]
    \cup [kind : {"json"}, status : Statuses, error : {"boom"},
          output : {[tag |-> "absent"]}, metrics : {NoMetrics}]
    \cup [kind : {"json"}, status : Statuses \ {"succeeded"}, error : {None},
          output : {[tag |-> "absent"]}, metrics : {NoMetrics}]

\* What describe_chart's submit can yield (lines 102-122).
VisionSubmitResponses ==
    {[kind |-> "transport_err"], [kind |-> "read_err"], [kind |-> "http_err"],
     [kind |-> "parse_err"]} \cup Predictions

\* What a poll of poll_prediction can yield (lines 151-161).
VisionPollResponses ==
    {[kind |-> "transport_err"], [kind |-> "parse_err"]} \cup Predictions

\* What upload_image's call can yield (lines 55-74).
UploadResponses ==
    {[kind |-> "transport_err"], [kind |-> "read_err"], [kind |-> "http_err"],
     [kind |-> "parse_err"], [kind |-> "ok"]}

\* The multipart body of a request: whether it decodes, and its image field.
RequestInputs ==
    [multipart : {"ok", "error"}, image : {"absent", "unreadable", "empty", "bytes"},
     mime_ok : BOOLEAN]

\* ---------------------------------------------------------------- state
WarmupStatus(state, message, secs) ==
    [state |-> state, message |-> message, elapsed_secs |-> secs]

InitialStatus == WarmupStatus("starting", MsgServerStarting, 0)

\* A task's snapshot variable while it holds no snapshot.
NoSnap == WarmupStatus(None, Msg(None, NoSecs, None), 0)

\* VisionResult (predict_seconds in milliseconds).
VisionResult(description, ms) == [description |-> description, predict_ms |-> ms]
NoVision == VisionResult(<<>>, 0 - 1)

\* The handler's return value: the HTTP status and the body.
Response(code, text, detail) == [code |-> code, text |-> text, detail |-> detail]
NoResponse == Response(0, None, None)

\* A function applied on its own: its name and its argument; what it returned.
Call(fn, input) == [fn |-> fn, input |-> input]
NoCall == Call(None, None)
NoReturn == <<>>
Returned(value) == <<value>>

\* The server as main() leaves it: the status cell, the spawned warmup task and
\* the handlers, none of which has taken a step.
Boot ==
    /\ warmup = InitialStatus
    /\ committed = InitialStatus
    /\ writer = FALSE
    /\ readers = {}
    /\ wwaiting = FALSE
    /\ wpc = "start"
    /\ wq = <<>>
    /\ wnext = None
    /\ attempt = 0
    /\ elapsed = 0
    /\ clock = 0
    /\ wresp = NoResp
    /\ wSubmitCalls = 0
    /\ wPollCalls = 0
    /\ wPollResps = 0
    /\ wWarm = FALSE
    /\ qpc = "idle"
    /\ qsnap = NoSnap
    /\ apc = "idle"
    /\ asnap = NoSnap
    /\ vattempt = 0
    /\ vision = NoVision
    /\ aresponse = NoResponse
    /\ aresp = NoResp
    /\ aUploadCalls = 0
    /\ aSubmitCalls = 0
    /\ aPollCalls = 0
    /\ aPollResps = 0
    /\ aReasonCalls = 0
    /\ aWarm = FALSE

Init ==
    /\ Boot
    /\ fcall = NoCall
    /\ fret = NoReturn

\* ------------------------------------------------------------- the RwLock
\* A read that does not wait for the writer to drop its guard.
CanReadUnguarded == TRUE

\* tokio's RwLock is fair: a reader is granted only when no writer holds the
\* lock or waits in its queue; the writer when nobody holds it.
CanRead == ~writer /\ ~wwaiting
CanWrite == ~writer /\ readers = {}

\* start.elapsed().as_secs(): Instant is monotonic, so a reading is no less than
\* the reading before it, and no less than `least`, by at most MaxDrift more
\* than the task has slept for.
Readings(least, slept) ==
    {t \in least .. (PollIntervalSecs * slept + MaxDrift) : t >= clock}

\* ------------------------------------------------------------ run_warmup
\* One assignment under a write guard; "elapsed_now" reads start.elapsed().
Set(f, v) == [field |-> f, val |-> v]

\* A branch of run_warmup: the assignments it makes under a write guard (none:
\* no guard is taken) and the position it continues at.
Branch(ops, next) == [ops |-> ops, next |-> next]

Take(b) ==
    IF b.ops = <<>>
    THEN /\ wpc' = b.next
         /\ UNCHANGED <<wq, wnext>>
    ELSE /\ wpc' = "lock"
         /\ wq' = b.ops
         /\ wnext' = b.next

\* Lines 98-103 without the assignment of the state.
WarmingOpsNoState ==
    <<Set("message", MsgSending), Set("elapsed_secs", 0)>>

\* Lines 98-103.
WarmingOps ==
    <<Set("state", "warming"), Set("message", MsgSending), Set("elapsed_secs", 0)>>

WBegin ==
    /\ ~Returning
    /\ wpc = "start"
    /\ Take(Branch(WarmingOps, "submit"))
    /\ UNCHANGED <<fvars, cell, clock, lockvars, wloc, whist, qvars, avars>>

\* write().await finds readers inside: the task queues for the lock.
WLockWait ==
    /\ ~Returning
    /\ wpc = "lock"
    /\ ~CanWrite
    /\ ~wwaiting
    /\ wwaiting' = TRUE
    /\ UNCHANGED <<fvars, cell, clock, writer, readers, wvars, qvars, avars>>

\* write().await is granted.
WLock ==
    /\ ~Returning
    /\ wpc = "lock"
    /\ CanWrite
    /\ writer' = TRUE
    /\ wwaiting' = FALSE
    /\ wpc' = "write"
    /\ UNCHANGED <<fvars, cell, clock, readers, wq, wnext, wloc, whist, qvars, avars>>

\* The value an assignment stores, `now` being start.elapsed().as_secs().
Assigned(op, now) ==
    CASE op.field = "state" -> [warmup EXCEPT !.state = op.val]
      [] op.field = "message" -> [warmup EXCEPT !.message = op.val]
      [] op.field = "elapsed_secs" -> [warmup EXCEPT !.elapsed_secs = op.val]
      [] op.field = "elapsed_now" -> [warmup EXCEPT !.elapsed_secs = now]

\* One `w.field = value` under the guard.
WAssign ==
    /\ ~Returning
    /\ wpc = "write"
    /\ wq # <<>>
    /\ IF Head(wq).field = "elapsed_now"
       THEN \E now \in Readings(clock, attempt) :
               /\ warmup' = Assigned(Head(wq), now)
               /\ clock' = now
       ELSE /\ warmup' = Assigned(Head(wq), clock)
            /\ UNCHANGED clock
    /\ wq' = Tail(wq)
    /\ UNCHANGED <<fvars, committed, lockvars, wpc, wnext, wloc, whist, qvars, avars>>

\* A guard that lives on to the end of the function, not of its block.
WUnlockKeepsGuard ==
    /\ ~Returning
    /\ wpc = "write"
    /\ wq = <<>>
    /\ writer' = (wnext # "done")
    /\ committed' = warmup
    /\ wpc' = wnext
    /\ wnext' = None
    /\ wresp' = IF wnext = "done" THEN NoResp ELSE wresp
    /\ UNCHANGED <<fvars, warmup, clock, readers, wwaiting, wq, wloc,
                   wSubmitCalls, wPollCalls, wPollResps, wWarm, qvars, avars>>

\* The guard is dropped (end of block, or `return`).
WUnlock ==
    /\ ~Returning
    /\ wpc = "write"
    /\ wq = <<>>
    /\ writer' = FALSE
    /\ committed' = warmup
    /\ wpc' = wnext
    /\ wnext' = None
    /\ wresp' = IF wnext = "done" THEN NoResp ELSE wresp
    /\ UNCHANGED <<fvars, warmup, clock, readers, wwaiting, wq, wloc,
                   wSubmitCalls, wPollCalls, wPollResps, wWarm, qvars, avars>>

\* Lines 116-122: the prediction submit is sent.
WSubmitSend ==
    /\ ~Returning
    /\ wpc = "submit"
    /\ wSubmitCalls' = wSubmitCalls + 1
    /\ wpc' = "submit_wait"
    /\ UNCHANGED <<fvars, cell, clock, lockvars, wq, wnext, wloc,
                   wresp, wPollCalls, wPollResps, wWarm, qvars, avars>>

\* Lines 124-172: what run_warmup does with the submit's outcome.
FailedOps(message) == <<Set("state", "failed"), Set("message", message)>>

WarmOps == <<Set("state", "ready"), Set("message", MsgModelReady), Set("elapsed_now", 0)>>

\* The submit's outcome without the `status == "succeeded"` shortcut.
WSubmitOutcomeNoShortcut(r) ==
    CASE r.kind = "transport_err" ->
           Branch(FailedOps(MsgRequestFailed("error sending request")), "done")
      [] r.kind = "parse_err" ->
           Branch(FailedOps(MsgParseError("error decoding response body")), "done")
      [] OTHER ->
           IF r.detail # None THEN Branch(FailedOps(MsgReplicateError(r.detail)), "done")
           ELSE IF r.id = None THEN Branch(FailedOps(MsgNoPredictionId("{body}")), "done")
           ELSE Branch(<<>>, "loop")

WSubmitOutcome(r) ==
    CASE r.kind = "transport_err" ->
           Branch(FailedOps(MsgRequestFailed("error sending request")), "done")
      [] r.kind = "parse_err" ->
           Branch(FailedOps(MsgParseError("error decoding response body")), "done")
      [] OTHER ->
           IF r.detail # None THEN Branch(FailedOps(MsgReplicateError(r.detail)), "done")
           ELSE IF r.status = "succeeded" THEN Branch(WarmOps, "done")
           ELSE IF r.id = None THEN Branch(FailedOps(MsgNoPredictionId("{body}")), "done")
           ELSE Branch(<<>>, "loop")

\* The submit response read succeeded and carries neither `detail` nor `error`.
IsWarm(r) ==
    r.kind = "json" /\ r.status = "succeeded" /\ r.detail = None /\ r.error = None

WSubmitRecv ==
    /\ ~Returning
    /\ wpc = "submit_wait"
    /\ \E r \in WarmupResponses :
         /\ Take(WSubmitOutcome(r))
         /\ wresp' = WClass(r)
         /\ wWarm' = IsWarm(r)
    /\ UNCHANGED <<fvars, cell, clock, lockvars, wloc, wSubmitCalls, wPollCalls, wPollResps,
                   qvars, avars>>

\* A tick's write that leaves the message as it was.
TickOpsElapsedOnly(secs) == <<Set("elapsed_secs", secs)>>

\* Lines 183-187: the tick's write.
TickOps(secs) == <<Set("elapsed_secs", secs), Set("message", MsgWarmingUp(secs))>>

\* Line 179: `for attempt in 1..=120` has made all its iterations.
WarmupExhausted(att) == att >= WarmupMaxAttempts

\* Lines 179-181: the next iteration sleeps 3 s and reads start.elapsed().
WSleep ==
    /\ ~Returning
    /\ wpc = "loop"
    /\ ~WarmupExhausted(attempt)
    /\ attempt' = attempt + 1
    /\ \E now \in Readings(clock + PollIntervalSecs, attempt') :
         /\ clock' = now
         /\ elapsed' = now
    /\ Take(Branch(TickOps(elapsed'), "poll_send"))
    /\ wresp' = NoResp
    /\ UNCHANGED <<fvars, cell, lockvars, wSubmitCalls, wPollCalls, wPollResps, wWarm, qvars, avars>>

\* The loop's end without its write.
TimeoutBranchSilent == Branch(<<>>, "done")

\* Lines 232-235.
TimeoutBranch == Branch(FailedOps(MsgTimedOut), "done")

\* Lines 179 and 232-235: the loop ran out of attempts.
WTimeout ==
    /\ ~Returning
    /\ wpc = "loop"
    /\ WarmupExhausted(attempt)
    /\ Take(TimeoutBranch)
    /\ wresp' = NoResp
    /\ UNCHANGED <<fvars, cell, clock, lockvars, wloc, wSubmitCalls, wPollCalls, wPollResps,
                   wWarm, qvars, avars>>

\* Lines 189-193: the poll is sent.
WPollSend ==
    /\ ~Returning
    /\ wpc = "poll_send"
    /\ wPollCalls' = wPollCalls + 1
    /\ wpc' = "poll_wait"
    /\ UNCHANGED <<fvars, cell, clock, lockvars, wq, wnext, wloc,
                   wresp, wSubmitCalls, wPollResps, wWarm, qvars, avars>>

\* Lines 206-209 with the elapsed seconds reset.
ReadyOpsReset(secs) ==
    <<Set("state", "ready"), Set("message", MsgModelReadyIn(secs)), Set("elapsed_secs", 0)>>

\* Lines 206-209.
ReadyOps(secs) ==
    <<Set("state", "ready"), Set("message", MsgModelReadyIn(secs)), Set("elapsed_secs", secs)>>

\* A poll's outcome with the `return` of the succeeded arm missing.
WPollOutcomeNoReturn(r, secs) ==
    IF r.kind # "json" THEN Branch(<<>>, "loop")
    ELSE IF r.status = "succeeded" THEN Branch(ReadyOps(secs), "loop")
    ELSE IF r.status \in {"failed", "canceled"}
         THEN Branch(FailedOps(MsgWarmupFailed(IF r.error = None THEN "unknown" ELSE r.error)),
                     "done")
    ELSE Branch(<<>>, "loop")

\* A poll's outcome with "succeeded" read as one more non-terminal status.
WPollOutcomeNoStop(r, secs) ==
    IF r.kind # "json" THEN Branch(<<>>, "loop")
    ELSE IF r.status \in {"failed", "canceled"}
         THEN Branch(FailedOps(MsgWarmupFailed(IF r.error = None THEN "unknown" ELSE r.error)),
                     "done")
    ELSE Branch(<<>>, "loop")

\* A poll's outcome with "canceled" read as success.
WPollOutcomeCanceledReady(r, secs) ==
    IF r.kind # "json" THEN Branch(<<>>, "loop")
    ELSE IF r.status \in {"succeeded", "canceled"} THEN Branch(ReadyOps(secs), "done")
    ELSE IF r.status = "failed"
         THEN Branch(FailedOps(MsgWarmupFailed(IF r.error = None THEN "unknown" ELSE r.error)),
                     "done")
    ELSE Branch(<<>>, "loop")

\* Lines 195-229: what run_warmup does with a poll's outcome.
WPollOutcome(r, secs) ==
    IF r.kind # "json" THEN Branch(<<>>, "loop")
    ELSE IF r.status = "succeeded" THEN Branch(ReadyOps(secs), "done")
    ELSE IF r.status \in {"failed", "canceled"}
         THEN Branch(FailedOps(MsgWarmupFailed(IF r.error = None THEN "unknown" ELSE r.error)),
                     "done")
    ELSE Branch(<<>>, "loop")

WPollRecv ==
    /\ ~Returning
    /\ wpc = "poll_wait"
    /\ \E r \in WarmupResponses :
         /\ Take(WPollOutcome(r, elapsed))
         /\ wresp' = WClass(r)
    /\ wPollResps' = wPollResps + 1
    /\ UNCHANGED <<fvars, cell, clock, lockvars, wloc, wSubmitCalls, wPollCalls, wWarm, qvars, avars>>

run_warmup ==
    \/ WBegin
    \/ WLockWait
    \/ WLock
    \/ WAssign
    \/ WUnlock
    \/ WSubmitSend
    \/ WSubmitRecv
    \/ WSleep
    \/ WTimeout
    \/ WPollSend
    \/ WPollRecv

\* --------------------------------------------------------- warmup_handler
\* Line 263: read().await is granted.
QLock ==
    /\ ~Returning
    /\ qpc = "idle"
    /\ CanRead
    /\ readers' = readers \cup {"query"}
    /\ qpc' = "locked"
    /\ UNCHANGED <<fvars, cell, clock, writer, wwaiting, wvars, qsnap, avars>>

\* Line 264: w.clone().
QClone ==
    /\ ~Returning
    /\ qpc = "locked"
    /\ qsnap' = warmup
    /\ qpc' = "cloned"
    /\ UNCHANGED <<fvars, cell, clock, lockvars, wvars, avars>>

\* Line 265: the guard is dropped and the clone is the response.
QReturn ==
    /\ ~Returning
    /\ qpc = "cloned"
    /\ readers' = readers \ {"query"}
    /\ qpc' = "idle"
    /\ qsnap' = NoSnap
    /\ UNCHANGED <<fvars, cell, clock, writer, wwaiting, wvars, avars>>

warmup_handler ==
    \/ QLock
    \/ QClone
    \/ QReturn

\* ---------------------------------------------------- vision::extract_result
RECURSIVE JoinStringsReversed(_)
\* A join that puts each fragment before the ones already joined.
JoinStringsReversed(items) ==
    IF items = <<>> THEN <<>>
    ELSE JoinStringsReversed(Tail(items))
         \o (IF Head(items).isStr THEN Head(items).str ELSE <<>>)

RECURSIVE JoinStrings(_)
\* Lines 187-191: filter_map(as_str) and join("").
JoinStrings(items) ==
    IF items = <<>> THEN <<>>
    ELSE (IF Head(items).isStr THEN Head(items).str ELSE <<>>) \o JoinStrings(Tail(items))

VErr(text, arg) == [tag |-> "err", text |-> text, arg |-> arg]
VOk(description, ms) == [tag |-> "ok", description |-> description, predict_ms |-> ms]
VContinue == [tag |-> "continue"]

\* Lines 201-205.
PredictSeconds(p) == IF p.metrics \in {NoMetrics, NoPredictTime} THEN 0 ELSE p.metrics

\* Lines 183-211.
extract_result(p) ==
    CASE p.output.tag = "string" -> VOk(p.output.str, PredictSeconds(p))
      [] p.output.tag = "array" ->
           IF JoinStrings(p.output.items) = <<>>
           THEN VErr("Replicate returned empty output array", None)
           ELSE VOk(JoinStrings(p.output.items), PredictSeconds(p))
      [] p.output.tag = "other" -> VOk(p.output.repr, PredictSeconds(p))
      [] OTHER -> VErr("Replicate returned no output", None)

\* ---------------------------------------------------- vision::describe_chart
\* Lines 55-77: the upload's outcome.
UploadOutcome(r) ==
    CASE r.kind = "transport_err" -> VErr("File upload request failed: {}", None)
      [] r.kind = "read_err" -> VErr("Failed to read upload response: {}", None)
      [] r.kind = "http_err" -> VErr("File upload failed ({}): {}", None)
      [] r.kind = "parse_err" -> VErr("Failed to parse upload response: {}", None)
      [] OTHER -> VContinue

\* The submit's outcome with every status but "succeeded" left to the polls.
VSubmitOutcomePollsUnknown(r) ==
    CASE r.kind = "transport_err" -> VErr("Replicate request failed: {}", None)
      [] r.kind = "read_err" -> VErr("Failed to read Replicate response: {}", None)
      [] r.kind = "http_err" -> VErr("Replicate API error ({}): {}", None)
      [] r.kind = "parse_err" -> VErr("Failed to parse Replicate response: {}", None)
      [] OTHER ->
           IF r.error # None THEN VErr("Replicate prediction error: {}", r.error)
           ELSE IF r.status = "succeeded" THEN extract_result(r)
           ELSE VContinue

\* Lines 102-135: the submit's outcome.
VSubmitOutcome(r) ==
    CASE r.kind = "transport_err" -> VErr("Replicate request failed: {}", None)
      [] r.kind = "read_err" -> VErr("Failed to read Replicate response: {}", None)
      [] r.kind = "http_err" -> VErr("Replicate API error ({}): {}", None)
      [] r.kind = "parse_err" -> VErr("Failed to parse Replicate response: {}", None)
      [] OTHER ->
           IF r.error # None THEN VErr("Replicate prediction error: {}", r.error)
           ELSE IF r.status = "succeeded" THEN extract_result(r)
           ELSE IF r.status \in {"processing", "starting"} THEN VContinue
           ELSE VErr("Unexpected prediction status: {}", r.status)

\* Lines 151-177: a poll's outcome.
VPollOutcome(r) ==
    CASE r.kind = "transport_err" -> VErr("Poll request failed: {}", None)
      [] r.kind = "parse_err" -> VErr("Failed to parse poll response: {}", None)
      [] OTHER ->
           IF r.error # None THEN VErr("Prediction failed: {}", r.error)
           ELSE IF r.status = "succeeded" THEN extract_result(r)
           ELSE IF r.status \in {"failed", "canceled"}
                THEN VErr("Prediction {}: {:?}", r.status)
           ELSE VContinue

VClass(r) ==
    IF r.kind # "json" THEN RespClass(r.kind, None, FALSE)
    ELSE RespClass("json", StatusClass(r.status), r.error # None)

IsWarmPrediction(r) == r.kind = "json" /\ r.status = "succeeded" /\ r.error = None

\* ------------------------------------------------- analyzer::analyze_pattern
\* Option<T> is a sequence of at most one element.
Some(x) == <<x>>
Absent == <<>>

\* Text is the sequence of its characters.  An object's members are written as
\* one character each: "p", "c", "d", "k", "r" stand for the members pattern,
\* category, direction, confidence and reasoning with a string value, "P" for a
\* member pattern whose value is no string.  "#" stands for a backquote.
Whitespace == {" ", "\n"}
Fence == <<"#", "#", "#">>
FenceJson == <<"#", "#", "#", "j", "s", "o", "n">>
Members == {"p", "c", "d", "k", "r", "P"}

StartsWith(s, p) == Len(s) >= Len(p) /\ SubSeq(s, 1, Len(p)) = p
EndsWith(s, p) == Len(s) >= Len(p) /\ SubSeq(s, Len(s) - Len(p) + 1, Len(s)) = p

\* str::strip_prefix and str::strip_suffix: the rest, or None.
strip_prefix(s, p) == IF StartsWith(s, p) THEN Some(SubSeq(s, Len(p) + 1, Len(s))) ELSE Absent
strip_suffix(s, p) == IF EndsWith(s, p) THEN Some(SubSeq(s, 1, Len(s) - Len(p))) ELSE Absent

\* Option::unwrap_or.
unwrap_or(o, default) == IF o = Absent THEN default ELSE o[1]

RECURSIVE trim_start(_)
trim_start(s) ==
    IF s # <<>> /\ Head(s) \in Whitespace THEN trim_start(Tail(s)) ELSE s

RECURSIVE trim_end(_)
trim_end(s) ==
    IF s # <<>> /\ s[Len(s)] \in Whitespace THEN trim_end(SubSeq(s, 1, Len(s) - 1)) ELSE s

\* str::trim.
trim(s) == trim_end(trim_start(s))

\* Lines 141-149: json_str.  Each unwrap_or falls back on content.trim().
StripFences(content) ==
    trim(unwrap_or(strip_suffix(
             unwrap_or(strip_prefix(
                 unwrap_or(strip_prefix(trim(content), FenceJson), trim(content)),
                 Fence),
                 trim(content)),
             Fence),
             trim(content)))

\* serde_json::from_str::<Value>: white space around the value is skipped; an
\* object is "{", its members, "}"; "42" is a value that is no object.
IsObjectText(s) ==
    /\ Len(s) >= 2
    /\ s[1] = "{"
    /\ s[Len(s)] = "}"
    /\ \A i \in 2 .. Len(s) - 1 : s[i] \in Members
    /\ \A i, j \in 2 .. Len(s) - 1 : s[i] = s[j] => i = j
    /\ ~({"p", "P"} \subseteq {s[i] : i \in 2 .. Len(s) - 1})

ParseErr == [tag |-> "err", members |-> {}]
Parsed(members) == [tag |-> "ok", members |-> members]

from_str(s) ==
    IF IsObjectText(trim(s)) THEN Parsed({trim(s)[i] : i \in 2 .. Len(trim(s)) - 1})
    ELSE IF trim(s) = <<"4", "2">> THEN Parsed({})
    ELSE ParseErr

\* A missing member read as the empty string.
FieldOrEmpty(parsed, member, value, default) ==
    IF member \in parsed.members THEN value ELSE ""

\* parsed[key].as_str().unwrap_or(default): the member's string, or the default.
Field(parsed, member, value, default) ==
    IF member \in parsed.members THEN value ELSE default

\* DeepSeekUsage, DeepSeekResponseMessage and DeepSeekResponse (models.rs).
Usage(prompt, completion, reasoning, cache_hit) ==
    [prompt_tokens |-> prompt, completion_tokens |-> completion,
     reasoning_tokens |-> reasoning, prompt_cache_hit_tokens |-> cache_hit]

Choice(content, reasoning_content) ==
    [content |-> content, reasoning_content |-> reasoning_content]

DeepSeekResponse(choices, usage) == [kind |-> "json", choices |-> choices, usage |-> usage]

\* Texts a reply can carry: an object with all its members, one with a single
\* member, one whose pattern is no string, a number, and text that is no JSON.
FullObject == <<"{", "p", "c", "d", "k", "r", "}">>
Objects == {FullObject, <<"{", "r", "}">>, <<"{", "P", "c", "}">>, <<"{", "}">>}
Bodies == Objects \cup {<<"4", "2">>, <<"j">>, <<>>}

\* A text with or without a fence before it and after it.
Fenced(lead, body, trail) ==
    (IF lead = <<>> THEN <<>> ELSE lead \o <<"\n">>) \o body
        \o (IF trail = <<>> THEN <<>> ELSE <<"\n">> \o trail)

Contents ==
    {pad \o Fenced(lead, body, trail) \o pad :
        pad \in {<<>>, <<" ">>}, lead \in {<<>>, Fence, FenceJson}, trail \in {<<>>, Fence},
        body \in Bodies}

\* Token counts of a usage block.
Tokens == {50 * i : i \in 0 .. MaxTokenUnits} \cup {1000}

Usages == {Usage(p, c, r, h) : p \in Tokens, c \in Tokens, r \in Tokens, h \in Tokens}

\* The bodies of the reasoning upstream: every usage block with one content,
\* and every content with some usage blocks.
DeepSeekResponses ==
    {DeepSeekResponse(<<>>, Absent)}
    \cup {DeepSeekResponse(<<Choice(FullObject, Some("thoughts"))>>, u) :
             u \in {Absent} \cup {Some(x) : x \in Usages}}
    \cup {DeepSeekResponse(<<Choice(c, Absent), Choice(<<"j">>, Absent)>>, u) :
             c \in Contents,
             u \in {Absent, Some(Usage(500, 50, 0, 0)), Some(Usage(50, 0, 0, 100))}}

\* What analyze_pattern's call can yield within a request (lines 85-156).
ReasonResponses ==
    {[kind |-> "transport_err"], [kind |-> "read_err"], [kind |-> "http_err"],
     [kind |-> "parse_err"], DeepSeekResponse(<<>>, Absent)}
    \cup {DeepSeekResponse(<<c>>, u) :
             c \in {Choice(FullObject, Some("thoughts")),
                    Choice(Fenced(Fence, <<"{", "r", "}">>, Fence), Absent),
                    Choice(Fenced(FenceJson, FullObject, Fence), Absent)},
             u \in {Absent, Some(Usage(500, 50, 0, 0)), Some(Usage(50, 0, 0, 100))}}

\* Prices in 1e-8 USD per token (analyzer.rs lines 9-12: USD per million).
REASONER_INPUT_PRICE == 55
REASONER_INPUT_CACHE_PRICE == 14
REASONER_OUTPUT_PRICE == 219
REASONER_REASONING_PRICE == 219

\* A subtraction that is not guarded against cache_hit > prompt.
unchecked_sub(a, b) == a - b

\* u64::saturating_sub.
saturating_sub(a, b) == IF a >= b THEN a - b ELSE 0

\* Lines 116-126: the token counts, (0, 0, 0, 0) without a usage block.
TokenUsage(r) == IF r.usage = Absent THEN Usage(0, 0, 0, 0) ELSE r.usage[1]

\* Lines 129-133: cost_usd, in 1e-8 USD.
ReasonerCost(u) ==
    saturating_sub(u.prompt_tokens, u.prompt_cache_hit_tokens) * REASONER_INPUT_PRICE
    + u.prompt_cache_hit_tokens * REASONER_INPUT_CACHE_PRICE
    + u.completion_tokens * REASONER_OUTPUT_PRICE
    + u.reasoning_tokens * REASONER_REASONING_PRICE

\* Lines 158-185.
AnalyzerResult(parsed, chain_of_thought, u) ==
    [tag |-> "ok",
     pattern |-> Field(parsed, "p", "Hammer", "Unknown"),
     category |-> Field(parsed, "c", "Single", "Unknown"),
     direction |-> Field(parsed, "d", "Bullish", "Unknown"),
     confidence |-> Field(parsed, "k", "High", "Unknown"),
     reasoning |-> Field(parsed, "r", "long lower shadow", "No reasoning provided"),
     chain_of_thought |-> chain_of_thought,
     prompt_tokens |-> u.prompt_tokens,
     completion_tokens |-> u.completion_tokens,
     reasoning_tokens |-> u.reasoning_tokens,
     cache_hit_tokens |-> u.prompt_cache_hit_tokens,
     cost_usd |-> ReasonerCost(u)]

\* -------------------------------------------------------- analyze_handler
\* A gate that passes every state but "failed".
GateRejectsFailedOnly(w) == w.state = "failed"

\* A gate that passes "failed".
GateRejectsWhileWarming(w) == w.state \in {"starting", "warming"}

\* Lines 278-283.
GateRejects(w) == w.state # "ready"

NotReady(w) == Response(503, "Model not ready: {}", w.message)
BadRequest(text) == Response(400, text, None)
VisionFailed(e) == Response(500, "Vision analysis failed: {}", e)
AnalysisFailed(e) == Response(500, "Pattern analysis failed: {}", e)

\* Line 277: read().await is granted.
ALock ==
    /\ apc = "idle"
    /\ CanRead
    /\ readers' = readers \cup {"analyze"}
    /\ apc' = "locked"
    /\ UNCHANGED <<fvars, cell, clock, writer, wwaiting, wvars, qvars, asnap, vattempt,
                   vision, aresponse, ahist>>

\* Lines 278-281: the status is read through the guard.
AGate ==
    /\ apc = "locked"
    /\ asnap' = warmup
    /\ apc' = "checked"
    /\ UNCHANGED <<fvars, cell, clock, lockvars, wvars, qvars, vattempt, vision, aresponse,
                   ahist>>

\* A gate that records its rejection in the status it has read.
AGateExitMarksStatus ==
    /\ apc = "checked"
    /\ readers' = readers \ {"analyze"}
    /\ IF GateRejects(asnap)
       THEN /\ aresponse' = NotReady(asnap)
            /\ apc' = "responded"
            /\ warmup' = [warmup EXCEPT !.message = MsgServerStarting]
       ELSE /\ apc' = "parse"
            /\ UNCHANGED <<aresponse, warmup>>
    /\ UNCHANGED <<fvars, committed, clock, writer, wwaiting, wvars, qvars, asnap, vattempt,
                   vision, ahist>>

\* Lines 278-284: reject, or drop the guard and go on.
AGateExit ==
    /\ apc = "checked"
    /\ readers' = readers \ {"analyze"}
    /\ IF GateRejects(asnap)
       THEN /\ aresponse' = NotReady(asnap)
            /\ apc' = "responded"
       ELSE /\ apc' = "parse"
            /\ UNCHANGED aresponse
    /\ UNCHANGED <<fvars, cell, clock, writer, wwaiting, wvars, qvars, asnap, vattempt,
                   vision, ahist>>

\* Lines 286-311: the multipart body is decoded.
ParseOutcome(inp) ==
    IF inp.multipart = "error" THEN BadRequest("Multipart error: {}")
    ELSE IF inp.image = "unreadable" THEN BadRequest("Failed to read image: {}")
    ELSE IF inp.image = "absent" THEN BadRequest("No image field in request")
    ELSE IF inp.image = "empty" THEN BadRequest("Empty image")
    ELSE NoResponse

\* Ends the request with `response`.
Respond(response) ==
    /\ aresponse' = response
    /\ apc' = "responded"

\* Lines 286-311, and lines 47-50 of upload_image (the part's mime type).
AParse ==
    /\ apc = "parse"
    /\ \E inp \in RequestInputs :
         IF ParseOutcome(inp) # NoResponse THEN Respond(ParseOutcome(inp))
         ELSE IF ~inp.mime_ok
              THEN Respond(VisionFailed(VErr("Failed to create multipart: {}", None)))
         ELSE /\ apc' = "upload"
              /\ UNCHANGED aresponse
    /\ UNCHANGED <<fvars, cell, clock, lockvars, wvars, qvars, asnap, vattempt, vision, ahist>>

\* Lines 55-60: the upload is sent.
AUploadSend ==
    /\ apc = "upload"
    /\ aUploadCalls' = aUploadCalls + 1
    /\ apc' = "upload_wait"
    /\ UNCHANGED <<fvars, cell, clock, lockvars, wvars, qvars, asnap, vattempt, vision,
                   aresponse, aresp, aSubmitCalls, aPollCalls, aPollResps,
                   aReasonCalls, aWarm>>

\* Lines 61-77.
AUploadRecv ==
    /\ apc = "upload_wait"
    /\ \E r \in UploadResponses :
         IF UploadOutcome(r).tag = "err" THEN Respond(VisionFailed(UploadOutcome(r)))
         ELSE /\ apc' = "vsubmit"
              /\ UNCHANGED aresponse
    /\ UNCHANGED <<fvars, cell, clock, lockvars, wvars, qvars, asnap, vattempt, vision, ahist>>

\* Lines 102-108: the prediction submit is sent.
AVSubmitSend ==
    /\ apc = "vsubmit"
    /\ aSubmitCalls' = aSubmitCalls + 1
    /\ apc' = "vsubmit_wait"
    /\ UNCHANGED <<fvars, cell, clock, lockvars, wvars, qvars, asnap, vattempt, vision,
                   aresponse, aresp, aUploadCalls, aPollCalls, aPollResps,
                   aReasonCalls, aWarm>>

\* The vision stage's outcome with an error read as an empty result.
VisionDoneDefaultsOnError(o) ==
    CASE o.tag = "err" ->
           /\ vision' = VisionResult(<<>>, 0)
           /\ apc' = "reason"
           /\ UNCHANGED aresponse
      [] o.tag = "ok" ->
           /\ vision' = VisionResult(o.description, o.predict_ms)
           /\ apc' = "reason"
           /\ UNCHANGED aresponse
      [] OTHER ->
           /\ apc' = "vloop"
           /\ UNCHANGED <<vision, aresponse>>

\* What analyze_handler does with the vision stage's outcome (lines 320-330):
\* an error ends the request, a result goes to the reasoning stage.
VisionDone(o) ==
    CASE o.tag = "err" -> Respond(VisionFailed(o)) /\ UNCHANGED vision
      [] o.tag = "ok" ->
           /\ vision' = VisionResult(o.description, o.predict_ms)
           /\ apc' = "reason"
           /\ UNCHANGED aresponse
      [] OTHER ->
           /\ apc' = "vloop"
           /\ UNCHANGED <<vision, aresponse>>

\* poll_prediction's loop variable and the counts of its calls live as long as
\* its loop does.
LoopCounters(o, att, calls, resps) ==
    IF o.tag = "continue"
    THEN /\ vattempt' = att
         /\ aPollCalls' = calls
         /\ aPollResps' = resps
    ELSE /\ vattempt' = 0
         /\ aPollCalls' = 0
         /\ aPollResps' = 0

\* Lines 109-135.
AVSubmitRecv ==
    /\ apc = "vsubmit_wait"
    /\ \E r \in VisionSubmitResponses :
         /\ VisionDone(VSubmitOutcome(r))
         /\ aresp' = VClass(r)
         /\ aWarm' = IsWarmPrediction(r)
    /\ UNCHANGED <<fvars, cell, clock, lockvars, wvars, qvars, asnap, vattempt, aUploadCalls,
                   aSubmitCalls, aPollCalls, aPollResps, aReasonCalls>>

\* A loop over 1..100, which stops one attempt short.
VisionExhaustedEarly(att) == att >= VisionMaxAttempts - 1

\* vision.rs line 148: `for attempt in 1..=100` has made all its iterations.
VisionExhausted(att) == att >= VisionMaxAttempts

\* vision.rs line 180.
VisionTimeout == VErr("Prediction timed out after 5 minutes", None)

\* Lines 148-156: the next iteration sleeps 3 s and sends its poll.
AVPollSend ==
    /\ apc = "vloop"
    /\ ~VisionExhausted(vattempt)
    /\ vattempt' = vattempt + 1
    /\ aPollCalls' = aPollCalls + 1
    /\ aresp' = NoResp
    /\ apc' = "vpoll_wait"
    /\ UNCHANGED <<fvars, cell, clock, lockvars, wvars, qvars, asnap, vision, aresponse,
                   aUploadCalls, aSubmitCalls, aPollResps, aReasonCalls, aWarm>>

\* Line 180: the loop ran out of attempts.
AVTimeout ==
    /\ apc = "vloop"
    /\ VisionExhausted(vattempt)
    /\ Respond(VisionFailed(VisionTimeout))
    /\ aresp' = NoResp
    /\ LoopCounters(VErr(None, None), vattempt, aPollCalls, aPollResps)
    /\ UNCHANGED <<fvars, cell, clock, lockvars, wvars, qvars, asnap, vision,
                   aUploadCalls, aSubmitCalls, aReasonCalls, aWarm>>

\* Lines 156-177.
AVPollRecv ==
    /\ apc = "vpoll_wait"
    /\ \E r \in VisionPollResponses :
         /\ VisionDone(VPollOutcome(r))
         /\ LoopCounters(VPollOutcome(r), vattempt, aPollCalls, aPollResps + 1)
         /\ aresp' = VClass(r)
    /\ UNCHANGED <<fvars, cell, clock, lockvars, wvars, qvars, asnap, aUploadCalls,
                   aSubmitCalls, aReasonCalls, aWarm>>

\* analyzer.rs lines 85-92: the reasoning request is sent.
AReasonSend ==
    /\ apc = "reason"
    /\ aReasonCalls' = aReasonCalls + 1
    /\ apc' = "reason_wait"
    /\ aresp' = NoResp
    /\ aWarm' = FALSE
    /\ UNCHANGED <<fvars, cell, clock, lockvars, wvars, qvars, asnap, vattempt, vision,
                   aresponse, aUploadCalls, aSubmitCalls, aPollCalls, aPollResps>>

\* analyzer.rs lines 92-185: the reasoning stage's outcome.
ReasonOutcome(r) ==
    CASE r.kind = "transport_err" -> VErr("DeepSeek request failed: {}", None)
      [] r.kind = "read_err" -> VErr("Failed to read DeepSeek response: {}", None)
      [] r.kind = "http_err" -> VErr("DeepSeek API error ({}): {}", None)
      [] r.kind = "parse_err" -> VErr("Failed to parse DeepSeek response: {}", None)
      [] OTHER ->
           IF r.choices = <<>> THEN VErr("DeepSeek returned no choices", None)
           ELSE IF from_str(StripFences(Head(r.choices).content)).tag = "err"
                THEN VErr("Failed to parse pattern JSON from DeepSeek: {}", None)
           ELSE AnalyzerResult(from_str(StripFences(Head(r.choices).content)),
                               Head(r.choices).reasoning_content, TokenUsage(r))

\* main.rs line 23: USD per second of GPU time, in 1e-8 USD per millisecond.
REPLICATE_GPU_RATE == 140

\* main.rs line 332.
VisionCost(v) == v.predict_ms * REPLICATE_GPU_RATE

\* A total that leaves the vision stage's cost out.
TotalCostReasonerOnly(v, a) == a.cost_usd

\* main.rs line 355.
TotalCost(v, a) == VisionCost(v) + a.cost_usd

\* main.rs lines 358-375: AnalyzeResponse with its CostBreakdown.
AnalyzeResponse(v, a) ==
    [pattern |-> a.pattern,
     category |-> a.category,
     direction |-> a.direction,
     confidence |-> a.confidence,
     reasoning |-> a.reasoning,
     chain_of_thought |-> a.chain_of_thought,
     chart_description |-> v.description,
     cost |-> [vision_seconds |-> v.predict_ms,
               vision_cost_usd |-> VisionCost(v),
               reasoner_prompt_tokens |-> a.prompt_tokens,
               reasoner_completion_tokens |-> a.completion_tokens,
               reasoner_reasoning_tokens |-> a.reasoning_tokens,
               reasoner_cost_usd |-> a.cost_usd,
               total_cost_usd |-> TotalCost(v, a)]]

\* Lines 343-377.
AReasonRecv ==
    /\ apc = "reason_wait"
    /\ \E r \in ReasonResponses :
         IF ReasonOutcome(r).tag = "err" THEN Respond(AnalysisFailed(ReasonOutcome(r)))
         ELSE Respond(Response(200, "ok", AnalyzeResponse(vision, ReasonOutcome(r))))
    /\ vision' = NoVision
    /\ UNCHANGED <<fvars, cell, clock, lockvars, wvars, qvars, asnap, vattempt, ahist>>

\* The response is returned; the task is free for the next request.
AReturn ==
    /\ apc = "responded"
    /\ apc' = "idle"
    /\ asnap' = NoSnap
    /\ vattempt' = 0
    /\ vision' = NoVision
    /\ aresponse' = NoResponse
    /\ aresp' = NoResp
    /\ aUploadCalls' = 0
    /\ aSubmitCalls' = 0
    /\ aPollCalls' = 0
    /\ aPollResps' = 0
    /\ aReasonCalls' = 0
    /\ aWarm' = FALSE
    /\ UNCHANGED <<fvars, cell, clock, lockvars, wvars, qvars>>

analyze_handler ==
    \/ ALock
    \/ AGate
    \/ AGateExit
    \/ AParse
    \/ AUploadSend
    \/ AUploadRecv
    \/ AVSubmitSend
    \/ AVSubmitRecv
    \/ AVPollSend
    \/ AVTimeout
    \/ AVPollRecv
    \/ AReasonSend
    \/ AReasonRecv

    \/ AReturn

Next ==
    \/ run_warmup
    \/ warmup_handler
    \/ analyze_handler

Spec == Init /\ [][Next]_vars

\* The tokio scheduler runs every task that can run: the warmup task takes its
\* next step (its network calls and sleeps return), a handler inside its guard
\* reaches the end of the guard's scope, and a response is returned.  The steps
\* that a returning handler holds back for one step are enabled again right
\* after it, hence the strong fairness for them.
Fairness ==
    /\ SF_vars(run_warmup)
    /\ SF_vars(QClone \/ QReturn)
    /\ WF_vars(AGate \/ AGateExit)
    /\ WF_vars(AReturn)

FairSpec == Spec /\ Fairness

\* ------------------------------------------- the pure functions on their own
\* extract_result and the part of analyze_pattern that follows its network call
\* read nothing but their argument: each is applied once to an argument drawn
\* from a wider set than a request of Spec meets.

RECURSIVE Arrays(_)
\* The arrays of at most n elements, each a string fragment or another value.
Arrays(n) ==
    IF n = 0 THEN {<<>>}
    ELSE Arrays(n - 1)
         \cup {<<x>> \o a : x \in {JStr(<<>>), JStr(<<"a">>), JStr(<<"b">>), JStr(<<"c">>), JOther},
                            a \in {b \in Arrays(n - 1) : Len(b) = n - 1}}

AllOutputs ==
    {[tag |-> "absent"]}
    \cup {[tag |-> "string", str |-> s] : s \in {<<>>, <<"D">>, <<"a", "b">>, <<" ">>}}
    \cup {[tag |-> "array", items |-> a] : a \in Arrays(MaxFragments)}
    \cup {[tag |-> "other", repr |-> r] : r \in {<<"4", "2">>, <<"{", "}">>}}

\* The predictions extract_result is called with: status "succeeded", no error.
SucceededPredictions ==
    [kind : {"json"}, status : {"succeeded"}, error : {None}, output : AllOutputs,
     metrics : Metrics]

Calls ==
    {Call("extract_result", p) : p \in SucceededPredictions}
    \cup {Call("analyze_pattern", r) : r \in DeepSeekResponses}
    \cup {Call("describe_chart", r) : r \in VisionSubmitResponses}
    \cup {Call("poll_prediction", r) : r \in VisionPollResponses}

FnInit ==
    /\ Boot
    /\ fcall \in Calls
    /\ fret = NoReturn

\* vision.rs lines 183-211.
CallExtractResult ==
    /\ fcall.fn = "extract_result"
    /\ fret = NoReturn
    /\ fret' = Returned(extract_result(fcall.input))
    /\ UNCHANGED <<svars, fcall>>

\* analyzer.rs lines 104-185.
CallAnalyzePattern ==
    /\ fcall.fn = "analyze_pattern"
    /\ fret = NoReturn
    /\ fret' = Returned(ReasonOutcome(fcall.input))
    /\ UNCHANGED <<svars, fcall>>

\* vision.rs lines 109-135: what describe_chart makes of its submit's response
\* (VContinue: it calls poll_prediction).
CallDescribeChart ==
    /\ fcall.fn = "describe_chart"
    /\ fret = NoReturn
    /\ fret' = Returned(VSubmitOutcome(fcall.input))
    /\ UNCHANGED <<svars, fcall>>

\* vision.rs lines 156-177: what an iteration of poll_prediction makes of its
\* poll's response (VContinue: the loop goes on).
CallPollPrediction ==
    /\ fcall.fn = "poll_prediction"
    /\ fret = NoReturn
    /\ fret' = Returned(VPollOutcome(fcall.input))
    /\ UNCHANGED <<svars, fcall>>

FnNext ==
    \/ CallExtractResult
    \/ CallAnalyzePattern
    \/ CallDescribeChart
    \/ CallPollPrediction

FnSpec == FnInit /\ [][FnNext]_vars

\* ------------------------------------------------------------------ claims
StatusSteps == {<<"starting", "warming">>, <<"warming", "ready">>, <<"warming", "failed">>}
TerminalStates == {"ready", "failed"}
TerminalStatuses == {"succeeded", "failed", "canceled"}
PollFailures == {"transport_err", "parse_err"}
ExtractErrors == {"Replicate returned empty output array", "Replicate returned no output"}

NoRequestCalls ==
    aUploadCalls = 0 /\ aSubmitCalls = 0 /\ aPollCalls = 0 /\ aReasonCalls = 0

\* C1: a request whose gate read a status other than "ready" is rejected with the
\* message of that same snapshot and has made no upstream call.
C1_NotReadyRejected ==
    (apc \notin {"idle", "locked"} /\ asnap.state # "ready") =>
        /\ apc \in {"checked", "responded"}
        /\ apc = "responded" =>
              aresponse = Response(503, "Model not ready: {}", asnap.message)
        /\ NoRequestCalls

C1_Witness ==
    /\ apc = "responded"
    /\ aresponse.code = 503
    /\ asnap.state = "warming"
    /\ asnap.message.text = "warming up model... {}s"

\* C2: the status starts in "starting" and its state only ever steps
\* starting -> warming -> ready | failed; a terminal state is never left.
C2_StateOrder ==
    /\ warmup.state = "starting"
    /\ [][warmup'.state = warmup.state \/ <<warmup.state, warmup'.state>> \in StatusSteps]_vars

C2_Witness ==
    /\ wpc = "done"
    /\ committed.state = "ready"
    /\ wPollCalls > 1
    /\ qpc = "cloned"

\* C3: under fair scheduling the warmup task ends with the status in "ready" or
\* "failed", after at most 120 poll calls.
C3_WarmupTerminates ==
    /\ <>(wpc = "done" /\ committed.state \in TerminalStates)
    /\ [](wPollCalls <= 120)

C3_Witness ==
    /\ wpc = "done"
    /\ committed.state = "failed"
    /\ committed.message = MsgTimedOut
    /\ wPollCalls = 120

\* C4: once the status is "failed" the warmup task is over (one submit was made,
\* no step of it is left) and no request gets past the gate: each is rejected
\* without an upstream call.
C4_FailedIsFinal ==
    committed.state = "failed" =>
        /\ wpc = "done"
        /\ wSubmitCalls = 1
        /\ warmup = committed
        /\ apc \in {"idle", "locked", "checked", "responded"}
        /\ apc = "checked" => asnap.state = "failed"
        /\ apc = "responded" => aresponse.code = 503
        /\ NoRequestCalls

C4_Witness ==
    /\ committed.state = "failed"
    /\ apc = "responded"
    /\ aresponse.code = 503
    /\ asnap = committed

\* C5: elapsed_secs never decreases, neither in the cell under any write nor in
\* the value a reader can see.
C5_ElapsedMonotonic ==
    [][/\ warmup'.elapsed_secs >= warmup.elapsed_secs
       /\ committed'.elapsed_secs >= committed.elapsed_secs]_vars

C5_Witness ==
    /\ committed.state = "ready"
    /\ committed.elapsed_secs > PollIntervalSecs
    /\ wPollCalls > 1

\* A status whose message belongs to its state.
Coherent(w) ==
    CASE w.state = "starting" -> w.message = MsgServerStarting
      [] w.state = "warming" ->
           w.message.text \in {"sending warmup request to replicate...",
                               "warming up model... {}s"}
      [] w.state = "ready" -> w.message.text \in {"model ready", "model ready ({}s)"}
      [] w.state = "failed" ->
           w.message.text \in {"warmup parse error: {}", "replicate error: {}",
                               "no prediction id: {}", "warmup request failed: {}",
                               "warmup failed: {}", "warmup timed out after 6 minutes"}
      [] OTHER -> FALSE

\* C6: every snapshot a reader holds is the whole status as the last completed
\* write (or the construction) left it, with the message of its state.
C6_SnapshotsWhole ==
    /\ qpc = "cloned" => qsnap = committed /\ Coherent(qsnap)
    /\ apc = "checked" => asnap = committed /\ Coherent(asnap)

C6_Witness ==
    /\ qpc = "cloned"
    /\ qsnap.state = "warming"
    /\ wpc = "lock"
    /\ wwaiting
    /\ Head(wq).val = "ready"

\* C7: on both paths a poll that fails in transport or in parsing leaves the
\* loop running and produces no error.
C7_PollFailureSwallowed ==
    [][/\ (wpc = "poll_wait" /\ wresp'.kind \in PollFailures) =>
             (wpc' = "loop" /\ warmup' = warmup)
       /\ (apc = "vpoll_wait" /\ aresp'.kind \in PollFailures) =>
             (apc' = "vloop" /\ aresponse' = aresponse)]_vars

\* C8: on both paths a submit or poll response that carries an error field is
\* fatal whatever its status: the request returns an error, the warmup goes on
\* to write "failed".
C8_ErrorFieldFatal ==
    [][/\ (apc \in {"vsubmit_wait", "vpoll_wait"} /\ aresp'.error) =>
             (apc' = "responded" /\ aresponse'.code = 500)
       /\ (wpc \in {"submit_wait", "poll_wait"} /\ wresp'.error) =>
             (wpc' = "lock" /\ wnext' = "done" /\ wq' # <<>> /\ Head(wq').val = "failed")]_vars

\* C9: after a submit response that reads succeeded and carries no error no poll
\* is made: the request goes on with what extract_result made of that response,
\* the warmup writes "ready" and ends.
C9_SucceededSubmitSkipsPolling ==
    /\ wWarm =>
          /\ wPollCalls = 0
          /\ wpc \in {"lock", "write", "done"}
          /\ wpc # "done" => wnext = "done"
          /\ wpc = "lock" => Head(wq).val = "ready"
          /\ wpc = "done" => committed.state = "ready" /\ committed.message = MsgModelReady
    /\ aWarm =>
          /\ aPollCalls = 0
          /\ \/ apc = "reason" /\ vision # NoVision /\ aReasonCalls = 0
             \/ /\ apc = "responded"
                /\ aresponse.code = 500
                /\ aresponse.detail.text \in ExtractErrors

C9_Witness ==
    /\ wWarm
    /\ wpc = "done"
    /\ aWarm
    /\ apc = "reason"

\* The warmup's step on a poll answered with a terminal status, and its steps
\* once it is on its way out.
WarmupStopsAtTerminal ==
    /\ (wpc = "poll_wait" /\ wresp'.kind = "json" /\ wresp'.status \in TerminalStatuses) =>
          /\ wPollCalls = wPollResps + 1
          /\ wpc' = "lock"
          /\ wnext' = "done"
          /\ (wresp'.status = "succeeded") => (Head(wq').val = "ready")
    /\ (wpc \in {"lock", "write"} /\ wnext = "done") => (wPollCalls' = wPollCalls)

\* The request's step on a poll answered with a terminal status.
RequestStopsAtTerminal ==
    (apc = "vpoll_wait" /\ aresp'.kind = "json" /\ aresp'.status \in TerminalStatuses) =>
        /\ aPollCalls = aPollResps + 1
        /\ apc' \in {"reason", "responded"}
        /\ (aresp'.status = "succeeded" /\ ~aresp'.error) =>
              (apc' = "reason" \/ aresponse'.detail.text \in ExtractErrors)

\* C10: the poll that is answered with a terminal status is call N+1 after N
\* answers that left the loop running, and it is the last call: the loop is left
\* at once (with "ready" or a result when the status is succeeded) and every
\* call made has been answered when the task is over.
C10_StopsAtFirstTerminal ==
    /\ [](wpc = "done" => wPollCalls = wPollResps)
    /\ [][WarmupStopsAtTerminal /\ RequestStopsAtTerminal]_vars

C10_Witness ==
    /\ wpc = "done"
    /\ committed.state = "ready"
    /\ wPollCalls = 3
    /\ wPollResps = 3
    /\ apc = "reason"
    /\ aresp.status = "succeeded"
    /\ aReasonCalls = 0
    /\ ~aWarm

\* The warmup's step out of the head of its loop: a poll while attempts are
\* left, the timeout write after the 120th poll.
WarmupLoopStep ==
    (wpc = "loop" /\ wpc' # "loop") =>
        IF wPollCalls = 120
        THEN /\ wPollResps = 120
             /\ wnext' = "done"
             /\ wq' = <<Set("state", "failed"), Set("message", MsgTimedOut)>>
        ELSE wnext' = "poll_send"

\* The request's step out of the head of its loop, and the only step that
\* gives the timeout error.
RequestLoopStep ==
    /\ (apc = "vloop" /\ apc' # "vloop") =>
          IF aPollCalls = 100
          THEN /\ aPollResps = 100
               /\ apc' = "responded"
               /\ aresponse' = Response(500, "Vision analysis failed: {}",
                                        VErr("Prediction timed out after 5 minutes", None))
          ELSE apc' = "vpoll_wait" /\ aPollCalls' = aPollCalls + 1
    /\ (apc # "vloop" /\ apc' = "responded" /\ aresponse'.code = 500) =>
          aresponse'.detail.text # "Prediction timed out after 5 minutes"

\* C11: a loop whose polls were all answered without a terminal status ends
\* after exactly its 100 (request) or 120 (warmup) poll calls: the request
\* returns the timeout error, which no other step returns, and the warmup writes
\* "failed" with the timeout message.
C11_TimeoutAfterMaxAttempts ==
    /\ [](wPollCalls <= 120 /\ aPollCalls <= 100)
    /\ [](committed.message = MsgTimedOut =>
             committed.state = "failed" /\ wpc = "done" /\ wPollCalls = 120)
    /\ [][WarmupLoopStep /\ RequestLoopStep]_vars

C11_Witness ==
    /\ apc = "responded"
    /\ aresponse.code = 500
    /\ aresponse.detail.text = "Prediction timed out after 5 minutes"
    /\ wPollCalls = 2

VisionStagePositions ==
    {"upload", "upload_wait", "vsubmit", "vsubmit_wait", "vloop", "vpoll_wait"}

\* Where a request stands with respect to its two stages.
StagesInOrder ==
    /\ aReasonCalls <= 1
    /\ apc \in VisionStagePositions => aReasonCalls = 0 /\ vision = NoVision
    /\ apc = "reason" =>
          /\ aReasonCalls = 0
          /\ vision # NoVision
          /\ aresp = RespClass("json", "succeeded", FALSE)
    /\ apc = "reason_wait" => aReasonCalls = 1 /\ vision # NoVision
    /\ aReasonCalls = 1 =>
          /\ apc \in {"reason_wait", "responded"}
          /\ aUploadCalls = 1
          /\ aSubmitCalls = 1
    /\ (apc = "responded" /\ aresponse.text = "Vision analysis failed: {}") =>
          aReasonCalls = 0

\* The reasoning call is sent from one place, and an error of the vision stage
\* is the request's response.
StageSteps ==
    /\ aReasonCalls' > aReasonCalls => apc = "reason" /\ apc' = "reason_wait"
    /\ (apc \in VisionStagePositions /\ aresp' # aresp
            /\ aresp' # RespClass("json", "succeeded", FALSE)
            /\ aresp' # RespClass("json", "pending", FALSE)
            /\ aresp' # NoResp) =>
          /\ apc' = "responded"
          /\ aresponse'.code = 500
          /\ aresponse'.text = "Vision analysis failed: {}"
          /\ aReasonCalls' = 0

\* C12: a request sends at most one reasoning call, and only with the result of
\* a vision stage that succeeded; a vision stage that fails ends the request
\* without a reasoning call.
C12_StagesSequential == [](StagesInOrder) /\ [][StageSteps]_vars

C12_Witness ==
    /\ apc = "responded"
    /\ aresponse.code = 200
    /\ aReasonCalls = 1
    /\ aresponse.detail.chart_description = <<"a", "b", "c">>

\* A successful return of analyze_pattern applied on its own.
AnalysisReturned ==
    fcall.fn = "analyze_pattern" /\ fret # NoReturn /\ fret[1].tag = "ok"

\* C13: the reasoning cost is max(prompt - cache_hit, 0) x 0.55 + cache_hit x 0.14
\* + completion x 2.19 + reasoning x 2.19 USD per million tokens (here in 1e-8
\* USD): never negative, 0 without usage, 0.001043 USD for 1000/400/200/100.
C13_ReasonerCost ==
    AnalysisReturned =>
        LET r == fret[1]
            miss == IF r.prompt_tokens - r.cache_hit_tokens > 0
                    THEN r.prompt_tokens - r.cache_hit_tokens ELSE 0
        IN /\ r.cost_usd = miss * 55 + r.cache_hit_tokens * 14
                              + r.completion_tokens * 219 + r.reasoning_tokens * 219
           /\ r.cost_usd >= 0
           /\ r.cache_hit_tokens > r.prompt_tokens =>
                 r.cost_usd = r.cache_hit_tokens * 14 + r.completion_tokens * 219
                                + r.reasoning_tokens * 219
           /\ fcall.input.usage = <<>> => r.cost_usd = 0
           /\ (r.prompt_tokens = 0 /\ r.cache_hit_tokens = 0 /\ r.completion_tokens = 0
                  /\ r.reasoning_tokens = 0) => r.cost_usd = 0
           /\ (r.prompt_tokens = 1000 /\ r.cache_hit_tokens = 400
                  /\ r.completion_tokens = 200 /\ r.reasoning_tokens = 100) =>
                 r.cost_usd = 104300

C13_Witness ==
    /\ AnalysisReturned
    /\ fret[1].prompt_tokens = 50
    /\ fret[1].cache_hit_tokens = 100
    /\ fret[1].completion_tokens = 200
    /\ fret[1].cost_usd = 45200

ExtractReturned == fcall.fn = "extract_result" /\ fret # NoReturn

RECURSIVE ConcatUpTo(_, _)
\* The first n fragments one after the other, in their order.
ConcatUpTo(items, n) ==
    IF n = 0 THEN <<>> ELSE ConcatUpTo(items, n - 1) \o items[n].str

\* C15: of a succeeded prediction, an array of string fragments gives the
\* fragments concatenated in their order (the empty concatenation is the error
\* of C16), a bare string is passed through unchanged, an empty array and an
\* absent output are errors, and any other value is given as it is rendered.
C15_OutputNormalized ==
    ExtractReturned =>
        LET out == fcall.input.output
            r == fret[1]
        IN /\ (out.tag = "array" /\ \A i \in 1 .. Len(out.items) : out.items[i].isStr) =>
                 IF ConcatUpTo(out.items, Len(out.items)) = <<>>
                 THEN r.tag = "err"
                 ELSE /\ r.tag = "ok"
                      /\ r.description = ConcatUpTo(out.items, Len(out.items))
           /\ (out.tag = "array"
                  /\ out.items = <<[isStr |-> TRUE, str |-> <<"a">>],
                                   [isStr |-> TRUE, str |-> <<"b">>],
                                   [isStr |-> TRUE, str |-> <<"c">>]>>) =>
                 r.tag = "ok" /\ r.description = <<"a", "b", "c">>
           /\ out.tag = "string" => r.tag = "ok" /\ r.description = out.str
           /\ (out.tag = "array" /\ out.items = <<>>) =>
                 r = [tag |-> "err", text |-> "Replicate returned empty output array",
                      arg |-> "none"]
           /\ out.tag = "absent" =>
                 r = [tag |-> "err", text |-> "Replicate returned no output", arg |-> "none"]
           /\ out.tag = "other" => r.tag = "ok" /\ r.description = out.repr

C15_Witness ==
    /\ ExtractReturned
    /\ fcall.input.output.tag = "array"
    /\ Len(fcall.input.output.items) = 3
    /\ fret[1].tag = "ok"
    /\ fret[1].description = <<"c", "a", "b">>

\* C16: the vision stage never gives a VisionResult with an empty description.
C16_NoEmptyDescription ==
    vision # NoVision => vision.description # <<>>

\* analyze_pattern applied on its own has returned, with a reply to read.
ReplyAnalysed ==
    fcall.fn = "analyze_pattern" /\ fret # NoReturn /\ fcall.input.choices # <<>>

\* C17: around a JSON object, a leading fence (with or without the tag json)
\* and a trailing fence are stripped: the parser is handed the object and the
\* stage succeeds.
C17_FencesStripped ==
    \A lead \in {<<>>, <<"#", "#", "#">>, <<"#", "#", "#", "j", "s", "o", "n">>} :
        \A trail \in {<<>>, <<"#", "#", "#">>} :
            \A object \in Objects :
                (ReplyAnalysed /\ fcall.input.choices[1].content = Fenced(lead, object, trail)) =>
                    /\ StripFences(fcall.input.choices[1].content) = object
                    /\ fret[1].tag = "ok"

\* C18: an AnalysisResult never reports more cache-hit tokens than prompt
\* tokens.
C18_CacheHitWithinPrompt ==
    AnalysisReturned => fret[1].cache_hit_tokens <= fret[1].prompt_tokens

\* The state the warmup's current write leaves in the cell.
TargetState ==
    IF wq # <<>> /\ Head(wq).field = "state" THEN Head(wq).val ELSE warmup.state

\* The warmup's last write: "ready" only for a response that read succeeded,
\* "failed" for everything else.
LastWrite ==
    (wpc \in {"lock", "write"} /\ wnext = "done") =>
        /\ TargetState \in {"ready", "failed"}
        /\ TargetState = "ready" => wresp.kind = "json" /\ wresp.status = "succeeded"
        /\ wresp.status # "succeeded" => TargetState = "failed"

\* The ways the warmup ends.
WarmupEnds ==
    /\ (wpc # "done" /\ wpc' = "done") =>
          /\ wpc = "write"
          /\ committed'.state = TargetState
          /\ committed'.state = "ready" => wresp.status = "succeeded"
    /\ (wpc \in {"submit_wait", "poll_wait"} /\ wresp'.status \in {"failed", "canceled"}
           /\ wnext' = "done") => TargetState' = "failed"
    /\ (wpc = "poll_wait" /\ wresp'.status \in {"failed", "canceled"}) => wnext' = "done"
    /\ (wpc = "submit_wait" /\ wresp'.kind \in {"transport_err", "parse_err"}) =>
          wnext' = "done" /\ TargetState' = "failed"
    /\ (wpc = "loop" /\ wnext' = "done") => TargetState' = "failed"

\* C19: the warmup ends in "ready" only when the submit response or a poll
\* response read succeeded; a failed or canceled job, a submit that fails in
\* transport or in parsing, a missing id and the exhausted attempts end in
\* "failed".
C19_ReadyOnlyOnSuccess ==
    /\ [](LastWrite)
    /\ [](wpc = "done" => committed.state \in {"ready", "failed"})
    /\ [][WarmupEnds]_vars

C19_Witness ==
    /\ wpc = "done"
    /\ committed.state = "failed"
    /\ committed.message.text = "no prediction id: {}"
    /\ wSubmitCalls = 1
    /\ wPollCalls = 0

\* C20: while the shared state is "starting" the warmup has sent no call and
\* received no response; a response is received with "warming" in the cell.
C20_WarmingBeforeNetwork ==
    /\ committed.state = "starting" =>
          /\ wpc \in {"start", "lock", "write"}
          /\ wSubmitCalls = 0
          /\ wPollCalls = 0
          /\ wresp = NoResp
    /\ wpc \in {"submit", "submit_wait", "poll_send", "poll_wait"} =>
          committed.state = "warming" /\ warmup.state = "warming"

C20_Witness ==
    /\ wpc = "submit_wait"
    /\ wSubmitCalls = 1
    /\ committed.state = "warming"
    /\ qpc = "cloned"
    /\ qsnap.state = "warming"

\* C21: only the warmup task writes the status: a step of an analysis request
\* or of a status query leaves its state, message and elapsed_secs as they are,
\* and the cell changes only under the warmup's write guard.  (Every step of a
\* handler moves its position, so it changes avars or qvars.)
C21_SoleWriter ==
    [][/\ (avars' # avars \/ qvars' # qvars \/ readers' # readers) =>
             (warmup' = warmup /\ committed' = committed /\ wvars' = wvars)
       /\ warmup' # warmup => (writer /\ wpc = "write" /\ wpc' = "write")
       /\ committed' # committed => (writer /\ wpc = "write" /\ committed' = warmup)]_vars

C21_Witness ==
    /\ apc = "responded"
    /\ aresponse.code = 500
    /\ qpc = "cloned"
    /\ qsnap.state = "ready"
    /\ qsnap = committed

\* Who holds the lock, and where: the warmup only while it assigns, a handler
\* only from its read() to the end of its gate check or clone.
GuardsAreShort ==
    /\ writer => wpc = "write"
    /\ wwaiting => wpc = "lock"
    /\ wpc \in {"submit", "submit_wait", "loop", "poll_send", "poll_wait", "done"} =>
          ~writer /\ ~wwaiting
    /\ "analyze" \in readers <=> apc \in {"locked", "checked"}
    /\ "query" \in readers <=> qpc \in {"locked", "cloned"}
    /\ writer => readers = {}

\* C22: the warmup holds its write guard neither while it sleeps nor while it
\* waits for a call, a handler holds its read guard for its gate check only;
\* under fair scheduling every write the warmup asks for is granted and
\* completed, which also ends the time readers are held back (a writer inside
\* or queued, so the warmup at its write).
C22_LockProgress ==
    /\ [](GuardsAreShort)
    /\ (wpc \in {"lock", "write"}) ~> (wpc \notin {"lock", "write"})

C22_Witness ==
    /\ wpc = "lock"
    /\ wwaiting
    /\ wnext = "poll_send"
    /\ readers = {"analyze", "query"}
    /\ attempt = 2

\* The status as a tick's write leaves it.
TickStatus(secs) ==
    [state |-> "warming",
     message |-> [text |-> "warming up model... {}s", secs |-> secs, arg |-> "none"],
     elapsed_secs |-> secs]

\* Each poll has its tick's write behind it.
TickWritten ==
    /\ wpc = "poll_send" =>
          /\ wPollCalls = attempt - 1
          /\ committed = TickStatus(elapsed)
          /\ elapsed >= 3 * attempt
    /\ wpc = "poll_wait" =>
          /\ wPollCalls = attempt
          /\ committed = TickStatus(elapsed)
    /\ (wpc \in {"lock", "write"} /\ wnext = "poll_send") =>
          /\ wPollCalls = attempt - 1
          /\ warmup.state = "warming"
          /\ \A i \in 1 .. Len(wq) : wq[i].field # "state"

\* A poll is sent from behind a tick's write only, whatever the poll before it
\* came to, and no assignment of a tick changes the state.
TickSteps ==
    /\ wPollCalls' > wPollCalls =>
          /\ wpc = "poll_send"
          /\ wPollCalls' = attempt
          /\ committed = TickStatus(elapsed)
    /\ (wpc = "write" /\ wnext = "poll_send") => warmup'.state = "warming"
    /\ (wpc = "poll_wait" /\ wpc' = "loop" /\ attempt < 120) => wPollCalls = attempt

\* C23: every tick of the warmup loop writes its elapsed seconds and the
\* message with them to the status, state still "warming", before the tick's
\* poll is sent; so on every tick, also after a poll that failed.
C23_TickWrites == [](TickWritten) /\ [][TickSteps]_vars

C23_Witness ==
    /\ wpc = "poll_wait"
    /\ attempt = 3
    /\ wPollResps = 2
    /\ committed.elapsed_secs = 10
    /\ committed.message.secs = 10
    /\ qpc = "cloned"
    /\ qsnap = committed

\* The text has the member written as m.
HasMember(text, m) == \E i \in 1 .. Len(text) : text[i] = m

PredictionRead(fn) ==
    /\ fcall.fn = fn
    /\ fret # NoReturn
    /\ fcall.input.kind = "json"
    /\ fcall.input.error = "none"

\* C25: a submit response without an error whose status is not succeeded,
\* starting or processing is an error at once, without a poll; the same status
\* in a poll's response ends the loop only when it is failed or canceled, and
\* any other status but succeeded keeps the loop waiting.
C25_SubmitStatusStrict ==
    /\ PredictionRead("describe_chart") =>
          /\ fcall.input.status \notin {"succeeded", "starting", "processing"} =>
                /\ fret[1].tag = "err"
                /\ fret[1].text = "Unexpected prediction status: {}"
                /\ fret[1].arg = fcall.input.status
          /\ fcall.input.status \in {"starting", "processing"} => fret[1].tag = "continue"
    /\ PredictionRead("poll_prediction") =>
          /\ fcall.input.status \in {"failed", "canceled"} =>
                /\ fret[1].tag = "err"
                /\ fret[1].text = "Prediction {}: {:?}"
                /\ fret[1].arg = fcall.input.status
          /\ fcall.input.status \notin {"succeeded", "failed", "canceled"} =>
                fret[1].tag = "continue"

C25_Witness ==
    /\ PredictionRead("describe_chart")
    /\ fcall.input.status = "queued"
    /\ fret[1].tag = "err"
    /\ fret[1].arg = "queued"

====
